---- MODULE Spec2Model ----
(***************************************************************************)
(* Model of the RAG pipeline of RETO_RAG.py: TextChunker (chunk tagging),  *)
(* RAGSystem.build_vectorstore (batched indexing), setup_retriever,        *)
(* setup_qa_chain, query and search_similar_documents.                     *)
(*                                                                         *)
(* The third-party collaborators (text splitter, Chroma store, retriever,  *)
(* RetrievalQA chain, OpenAI provider) are modelled at their call          *)
(* boundary: what a call returns or whether it raises is an input of the   *)
(* action that makes the call.                                             *)
(***************************************************************************)
EXTENDS Integers, Sequences, FiniteSets, TLC

VARIABLES
    vectorstore,   \* self.vectorstore: 0 is None, n > 0 the n-th Chroma handle
    retriever,     \* self.retriever: NoRetriever or the configured retriever
    qa_chain,      \* self.qa_chain: NoChain or the configured chain
    collection,    \* records persisted in the Chroma collection "rag_documents"
    documents,     \* argument of the last build_vectorstore call
    calls,         \* batches passed to add_documents by the last build_vectorstore
    raised,        \* raised[n]: whether the n-th add_documents call raised
    sleeps,        \* time.sleep arguments of the last build_vectorstore, in order
    last,          \* the last RAGSystem call: what it raised or returned
    splitter,      \* TextChunker.splitter: NoSplitter or its configuration
    chunks         \* list returned by the last TextChunker.split_documents call

vars == <<vectorstore, retriever, qa_chain, collection, documents, calls,
          raised, sleeps, last, splitter, chunks>>

(***************************************************************************)
(* Bounds of the model.                                                    *)
(***************************************************************************)
MaxChunks == 250        \* largest document list passed to build_vectorstore
MaxCalls == 4           \* add_documents calls whose failure the environment chooses
MaxBuilds == 2          \* build_vectorstore calls per run
MaxDocs == 3            \* documents indexed before the query operations run
MaxK == 21              \* largest k passed to setup_retriever
MaxRetrieved == 2       \* most fragments one retrieval returns in the model
MaxPool == 3            \* leading records of the collection a retrieval draws from
MaxChunkSize == 3       \* largest chunk_size / chunk_overlap given to TextChunker
MaxDocLen == 4          \* longest page_content given to split_documents
MaxInputDocs == 2       \* most documents given to one split_documents call
MaxPages == 2           \* pages of the PDF file in the loaded directory

(***************************************************************************)
(* Program constants.                                                      *)
(***************************************************************************)
batch_size == 100
SleepOk == 1
SleepError == 5
fetch_k == 20
lambda_mult == 50       \* 0.5, in hundredths
PreviewLen == 200
DefaultChunkSize == 1200
DefaultChunkOverlap == 200

Min(a, b) == IF a < b THEN a ELSE b

\* Python's s[lo:hi] for 0 <= lo <= hi (0-based, hi exclusive, clipped).
Slice(s, lo, hi) == SubSeq(s, lo + 1, Min(hi, Len(s)))

\* The list [1, ..., n] standing for n distinct chunks in submission order.
ChunkList(n) == [j \in 1..n |-> j]

\* Sizes of the document lists submitted when the model explores the
\* retrieval and query operations.
FewChunks == {0, MaxDocs}

\* Sizes of the document lists submitted when the model explores indexing:
\* sizes around the batch boundaries.
ChunkCounts ==
    {n \in 0..MaxChunks :
        n \in {0, 1, batch_size, batch_size + 1} \/ n >= MaxChunks}

(***************************************************************************)
(* Chroma.add_documents as seen by the caller: it either stores the whole  *)
(* batch or raises and stores nothing.                                     *)
(***************************************************************************)
AddDocuments(coll, batch, ok) == IF ok THEN coll \o batch ELSE coll

EmptyLog(coll) ==
    [calls |-> <<>>, raised |-> <<>>, sleeps |-> <<>>, collection |-> coll]

(***************************************************************************)
(* Faulty variants of the indexing loop, used to test the theorems below.  *)
(***************************************************************************)
\* The first failing batch ends the loop (no try/except around the call).
RECURSIVE IndexBatchesAbort(_, _, _, _)
IndexBatchesAbort(docs, i, fails, log) ==
    IF i >= Len(docs)
    THEN log
    ELSE LET batch == Slice(docs, i, i + batch_size)
             n == Len(log.calls) + 1
             ok == n \notin fails
             next == [calls |-> Append(log.calls, batch),
                      raised |-> Append(log.raised, ~ok),
                      sleeps |-> Append(log.sleeps,
                                        IF ok THEN SleepOk ELSE SleepError),
                      collection |-> AddDocuments(log.collection, batch, ok)]
         IN  IF ok
             THEN IndexBatchesAbort(docs, i + batch_size, fails, next)
             ELSE next

\* The slice loses its last element: documents[i:i + batch_size - 1].
RECURSIVE IndexBatchesShort(_, _, _, _)
IndexBatchesShort(docs, i, fails, log) ==
    IF i >= Len(docs)
    THEN log
    ELSE LET batch == Slice(docs, i, i + batch_size - 1)
             n == Len(log.calls) + 1
             ok == n \notin fails
         IN  IndexBatchesShort(docs, i + batch_size, fails,
                 [calls |-> Append(log.calls, batch),
                  raised |-> Append(log.raised, ~ok),
                  sleeps |-> Append(log.sleeps,
                                    IF ok THEN SleepOk ELSE SleepError),
                  collection |-> AddDocuments(log.collection, batch, ok)])

\* A failed batch is passed to add_documents once more after the long pause.
RECURSIVE IndexBatchesRetry(_, _, _, _)
IndexBatchesRetry(docs, i, fails, log) ==
    IF i >= Len(docs)
    THEN log
    ELSE LET batch == Slice(docs, i, i + batch_size)
             n == Len(log.calls) + 1
             ok == n \notin fails
             first == [calls |-> Append(log.calls, batch),
                       raised |-> Append(log.raised, ~ok),
                       sleeps |-> Append(log.sleeps,
                                         IF ok THEN SleepOk ELSE SleepError),
                       collection |-> AddDocuments(log.collection, batch, ok)]
             again == (n + 1) \notin fails
             second == [calls |-> Append(first.calls, batch),
                        raised |-> Append(first.raised, ~again),
                        sleeps |-> Append(first.sleeps,
                                      IF again THEN SleepOk ELSE SleepError),
                        collection |->
                            AddDocuments(first.collection, batch, again)]
         IN  IndexBatchesRetry(docs, i + batch_size, fails,
                               IF ok THEN first ELSE second)

\* A failed batch is re-submitted in halves and its first half is stored.
RECURSIVE IndexBatchesHalf(_, _, _, _)
IndexBatchesHalf(docs, i, fails, log) ==
    IF i >= Len(docs)
    THEN log
    ELSE LET batch == Slice(docs, i, i + batch_size)
             n == Len(log.calls) + 1
             ok == n \notin fails
         IN  IndexBatchesHalf(docs, i + batch_size, fails,
                 [calls |-> Append(log.calls, batch),
                  raised |-> Append(log.raised, ~ok),
                  sleeps |-> Append(log.sleeps,
                                    IF ok THEN SleepOk ELSE SleepError),
                  collection |->
                      IF ok
                      THEN AddDocuments(log.collection, batch, TRUE)
                      ELSE AddDocuments(log.collection,
                               Slice(batch, 0, (Len(batch) + 1) \div 2),
                               TRUE)])

(***************************************************************************)
(* The indexing loop of build_vectorstore:                                 *)
(*   for i in range(0, len(documents), batch_size):                        *)
(*       batch = documents[i:i + batch_size]                               *)
(*       try: add_documents(batch); sleep(1)                               *)
(*       except Exception: sleep(5)                                        *)
(* fails is the set of add_documents calls (numbered from 1) that raise.   *)
(***************************************************************************)
RECURSIVE IndexBatches(_, _, _, _)
IndexBatches(docs, i, fails, log) ==
    IF i >= Len(docs)
    THEN log
    ELSE LET batch == Slice(docs, i, i + batch_size)
             n == Len(log.calls) + 1
             ok == n \notin fails
         IN  IndexBatches(docs, i + batch_size, fails,
                 [calls |-> Append(log.calls, batch),
                  raised |-> Append(log.raised, ~ok),
                  sleeps |-> Append(log.sleeps,
                                    IF ok THEN SleepOk ELSE SleepError),
                  collection |-> AddDocuments(log.collection, batch, ok)])

NoRetriever ==
    [store |-> 0, search_type |-> "none", k |-> 0, fetch_k |-> 0,
     lambda_mult |-> 0]
NoChain == [retriever |-> NoRetriever, return_source_documents |-> FALSE]
DefaultSplitter ==
    [chunk_size |-> DefaultChunkSize, chunk_overlap |-> DefaultChunkOverlap]
None == <<>>

\* What qa_chain.invoke did during a call: nothing, returned with the
\* retrieved fragments docs, or raised.
NoInvoke == [outcome |-> "none", docs |-> <<>>]
InvokeReturned(docs) == [outcome |-> "returned", docs |-> docs]
InvokeRaised == [outcome |-> "raised", docs |-> <<>>]

\* A call op(args) that returned value after n calls on the vector store.
Returned(op, args, value, n) ==
    [op |-> op, args |-> args, raised |-> FALSE, error |-> "",
     store_calls |-> n, invoke |-> NoInvoke, returned |-> value]

\* A call op(args) that raised the exception with message msg.
Raised(op, args, msg, n) ==
    [op |-> op, args |-> args, raised |-> TRUE, error |-> msg,
     store_calls |-> n, invoke |-> NoInvoke, returned |-> None]

Init ==
    /\ vectorstore = 0
    /\ retriever = NoRetriever
    /\ qa_chain = NoChain
    /\ collection = <<>>
    /\ documents = <<>>
    /\ calls = <<>>
    /\ raised = <<>>
    /\ sleeps = <<>>
    /\ last = Returned("__init__", <<>>, None, 0)
    /\ splitter = DefaultSplitter
    /\ chunks = <<>>

(***************************************************************************)
(* RAGSystem.build_vectorstore(documents)                                  *)
(***************************************************************************)
\* Faulty variant: a rebuild also drops the retriever and the QA chain.
build_vectorstoreResets(docs, fails) ==
    LET log == IndexBatches(docs, 0, fails, EmptyLog(collection))
    IN  /\ vectorstore < MaxBuilds
        /\ vectorstore' = vectorstore + 1
        /\ documents' = docs
        /\ calls' = log.calls
        /\ raised' = log.raised
        /\ sleeps' = log.sleeps
        /\ collection' = log.collection
        /\ retriever' = NoRetriever
        /\ qa_chain' = NoChain
        /\ last' = Returned("build_vectorstore", <<>>, None,
                             Len(log.calls))
        /\ UNCHANGED <<splitter, chunks>>

build_vectorstore(docs, fails) ==
    LET log == IndexBatches(docs, 0, fails, EmptyLog(collection))
    IN  /\ vectorstore < MaxBuilds
        /\ vectorstore' = vectorstore + 1
        /\ documents' = docs
        /\ calls' = log.calls
        /\ raised' = log.raised
        /\ sleeps' = log.sleeps
        /\ collection' = log.collection
        /\ last' = Returned("build_vectorstore", <<>>, None,
                             Len(log.calls))
        /\ UNCHANGED <<retriever, qa_chain, splitter, chunks>>

BuildVectorstore(counts) ==
    \E n \in counts, fails \in SUBSET (1..MaxCalls) :
        build_vectorstore(ChunkList(n), fails)

(***************************************************************************)
(* Documents.  Chunk c stands for a Document whose page_content and        *)
(* metadata are fixed by c; lengths fall on both sides of the preview      *)
(* limit and some documents carry no source_file / chunk_id metadata.      *)
(***************************************************************************)
Alphabet == <<"a", "b", "c">>
Ellipsis == <<".", ".", ".">>

ContentLen(c) == (c * 67) % 260

PageContent(c) == [j \in 1..ContentLen(c) |-> Alphabet[((c + j) % 3) + 1]]

Metadata(c) ==
    IF c % 3 = 2
    THEN [page |-> c]
    ELSE [source_file |-> IF c % 2 = 0 THEN "manual_politicas.txt"
                                       ELSE "guia_desarrollo.txt",
          chunk_id |-> c - 1,
          chunk_size |-> ContentLen(c)]

Doc(c) == [page_content |-> PageContent(c), metadata |-> Metadata(c)]

\* dict.get(key, default)
Get(d, key, default) == IF key \in DOMAIN d THEN d[key] ELSE default

(***************************************************************************)
(* What a retrieval of at most k fragments can return: an ordered choice   *)
(* of distinct records of the collection.                                  *)
(***************************************************************************)
Retrievals(k) ==
    LET pool == 1..Min(MaxPool, Len(collection))
        most == Min(Min(k, MaxRetrieved), Cardinality(pool))
        picks == UNION {{f \in [1..n -> pool] :
                            \A i, j \in 1..n : i # j => f[i] # f[j]} :
                        n \in 0..most}
    IN  {[i \in 1..Len(f) |-> collection[f[i]]] : f \in picks}

(***************************************************************************)
(* RAGSystem.setup_retriever(k, search_type)                               *)
(***************************************************************************)
\* Faulty variant: the guard on self.vectorstore is missing.
setup_retrieverUnguarded(k, search_type) ==
    /\ retriever' = [store |-> vectorstore, search_type |-> search_type,
                     k |-> k, fetch_k |-> fetch_k,
                     lambda_mult |-> lambda_mult]
    /\ last' = Returned("setup_retriever", <<k, search_type>>, None, 1)
    /\ UNCHANGED <<vectorstore, qa_chain, collection, documents, calls,
                   raised, sleeps, splitter, chunks>>

setup_retriever(k, search_type) ==
    IF vectorstore = 0
    THEN /\ last' = Raised("setup_retriever", <<k, search_type>>,
                           "Primero debe construir la base de datos vectorial",
                           0)
         /\ UNCHANGED <<vectorstore, retriever, qa_chain, collection,
                        documents, calls, raised, sleeps, splitter, chunks>>
    ELSE /\ retriever' = [store |-> vectorstore, search_type |-> search_type,
                          k |-> k, fetch_k |-> fetch_k,
                          lambda_mult |-> lambda_mult]
         /\ last' = Returned("setup_retriever", <<k, search_type>>, None, 1)
         /\ UNCHANGED <<vectorstore, qa_chain, collection, documents, calls,
                        raised, sleeps, splitter, chunks>>

SetupRetriever ==
    \E k \in {7, MaxK}, search_type \in {"similarity", "mmr"} :
        setup_retriever(k, search_type)

(***************************************************************************)
(* RAGSystem.setup_qa_chain()                                              *)
(***************************************************************************)
\* Faulty variant: the guard on self.retriever is missing.
setup_qa_chainUnguarded ==
    /\ qa_chain' = [retriever |-> retriever,
                    return_source_documents |-> TRUE]
    /\ last' = Returned("setup_qa_chain", <<>>, None, 0)
    /\ UNCHANGED <<vectorstore, retriever, collection, documents, calls,
                   raised, sleeps, splitter, chunks>>

setup_qa_chain ==
    IF retriever = NoRetriever
    THEN /\ last' = Raised("setup_qa_chain", <<>>,
                           "Primero debe configurar el recuperador", 0)
         /\ UNCHANGED <<vectorstore, retriever, qa_chain, collection,
                        documents, calls, raised, sleeps, splitter, chunks>>
    ELSE /\ qa_chain' = [retriever |-> retriever,
                         return_source_documents |-> TRUE]
         /\ last' = Returned("setup_qa_chain", <<>>, None, 0)
         /\ UNCHANGED <<vectorstore, retriever, collection, documents, calls,
                        raised, sleeps, splitter, chunks>>

SetupQaChain == setup_qa_chain

(***************************************************************************)
(* RAGSystem.query(question, return_sources)                               *)
(***************************************************************************)
Suffix == " --- Responde concretamente, sin tanto choro"

\* qa_chain.invoke({"query": prompt}) when it returns: the chain's output.
Invoke(chain, prompt, docs, text) ==
    IF chain.return_source_documents
    THEN [query |-> prompt, result |-> text, source_documents |-> docs]
    ELSE [query |-> prompt, result |-> text]

\* Faulty variant: document_id is the 0-based index.
SourceInfoZeroBased(i, doc) ==
    [document_id |-> i,
     source_file |-> Get(doc.metadata, "source_file", "Unknown"),
     chunk_id |-> Get(doc.metadata, "chunk_id", "Unknown"),
     content_preview |-> Slice(doc.page_content, 0, PreviewLen) \o Ellipsis]

\* source_info of the i-th (0-based) source document.
SourceInfo(i, doc) ==
    [document_id |-> i + 1,
     source_file |-> Get(doc.metadata, "source_file", "Unknown"),
     chunk_id |-> Get(doc.metadata, "chunk_id", "Unknown"),
     content_preview |-> Slice(doc.page_content, 0, PreviewLen) \o Ellipsis]

\* Faulty variant: every response carries an error key, false on success.
ResponseWithErrorKey(question, result, return_sources) ==
    LET response == [question |-> question, answer |-> result.result,
                     error |-> FALSE, timestamp |-> "now"]
    IN  IF return_sources /\ "source_documents" \in DOMAIN result
        THEN LET sources ==
                     [i \in 1..Len(result.source_documents) |->
                         SourceInfo(i - 1, result.source_documents[i])]
             IN  response @@ [sources |-> sources,
                              num_sources |-> Len(sources)]
        ELSE response

\* The response dictionary built from the chain's output.
Response(question, result, return_sources) ==
    LET response == [question |-> question, answer |-> result.result,
                     timestamp |-> "now"]
    IN  IF return_sources /\ "source_documents" \in DOMAIN result
        THEN LET sources ==
                     [i \in 1..Len(result.source_documents) |->
                         SourceInfo(i - 1, result.source_documents[i])]
             IN  response @@ [sources |-> sources,
                              num_sources |-> Len(sources)]
        ELSE response

\* The dictionary returned when the chain raises e.
ErrorResponse(question, e) ==
    [question |-> question, answer |-> "Error procesando consulta: " \o e,
     error |-> TRUE, timestamp |-> "now"]

\* Faulty variant: no try/except, the chain's exception reaches the caller.
queryReraises(question, return_sources, fails, e, retrieved, text) ==
    IF qa_chain = NoChain
    THEN /\ last' = Raised("query", <<question, return_sources>>,
                           "Sistema no inicializado completamente", 0)
         /\ UNCHANGED <<vectorstore, retriever, qa_chain, collection,
                        documents, calls, raised, sleeps, splitter, chunks>>
    ELSE /\ last' =
               IF fails
               THEN [Raised("query", <<question, return_sources>>, e, 1)
                        EXCEPT !.invoke = InvokeRaised]
               ELSE [Returned("query", <<question, return_sources>>,
                        Response(question,
                                 Invoke(qa_chain, question \o Suffix,
                                        [i \in 1..Len(retrieved) |->
                                            Doc(retrieved[i])],
                                        text),
                                 return_sources),
                        1)
                        EXCEPT !.invoke = InvokeReturned(retrieved)]
         /\ UNCHANGED <<vectorstore, retriever, qa_chain, collection,
                        documents, calls, raised, sleeps, splitter, chunks>>

\* Faulty variant: the guard tests self.retriever instead of self.qa_chain;
\* invoking the missing chain then fails inside the try block.
queryChecksRetriever(question, return_sources, fails, e, retrieved, text) ==
    IF retriever = NoRetriever
    THEN /\ last' = Raised("query", <<question, return_sources>>,
                           "Sistema no inicializado completamente", 0)
         /\ UNCHANGED <<vectorstore, retriever, qa_chain, collection,
                        documents, calls, raised, sleeps, splitter, chunks>>
    ELSE /\ last' =
               IF fails \/ qa_chain = NoChain
               THEN [Returned("query", <<question, return_sources>>,
                              ErrorResponse(question, e), 1)
                        EXCEPT !.invoke = InvokeRaised]
               ELSE [Returned("query", <<question, return_sources>>,
                        Response(question,
                                 Invoke(qa_chain, question \o Suffix,
                                        [i \in 1..Len(retrieved) |->
                                            Doc(retrieved[i])],
                                        text),
                                 return_sources),
                        1)
                        EXCEPT !.invoke = InvokeReturned(retrieved)]
         /\ UNCHANGED <<vectorstore, retriever, qa_chain, collection,
                        documents, calls, raised, sleeps, splitter, chunks>>

query(question, return_sources, fails, e, retrieved, text) ==
    IF qa_chain = NoChain
    THEN /\ last' = Raised("query", <<question, return_sources>>,
                           "Sistema no inicializado completamente", 0)
         /\ UNCHANGED <<vectorstore, retriever, qa_chain, collection,
                        documents, calls, raised, sleeps, splitter, chunks>>
    ELSE /\ last' =
               IF fails
               THEN [Returned("query", <<question, return_sources>>,
                              ErrorResponse(question, e), 1)
                        EXCEPT !.invoke = InvokeRaised]
               ELSE [Returned("query", <<question, return_sources>>,
                        Response(question,
                                 Invoke(qa_chain, question \o Suffix,
                                        [i \in 1..Len(retrieved) |->
                                            Doc(retrieved[i])],
                                        text),
                                 return_sources),
                        1)
                        EXCEPT !.invoke = InvokeReturned(retrieved)]
         /\ UNCHANGED <<vectorstore, retriever, qa_chain, collection,
                        documents, calls, raised, sleeps, splitter, chunks>>

Questions == {"vacaciones?"}
ProviderErrors == {"rate limit"}
ProviderTexts == {"15 dias"}

Query ==
    \E question \in Questions, return_sources \in BOOLEAN,
       fails \in BOOLEAN, e \in ProviderErrors,
       retrieved \in Retrievals(qa_chain.retriever.k),
       text \in ProviderTexts :
        query(question, return_sources, fails, e, retrieved, text)

(***************************************************************************)
(* RAGSystem.search_similar_documents(query, k)                            *)
(***************************************************************************)
search_similar_documents(q, k, fails, e, found) ==
    IF vectorstore = 0
    THEN /\ last' = Raised("search_similar_documents", <<q, k>>,
                           "Base de datos vectorial no inicializada", 0)
         /\ UNCHANGED <<vectorstore, retriever, qa_chain, collection,
                        documents, calls, raised, sleeps, splitter, chunks>>
    ELSE /\ last' =
               IF fails
               THEN Raised("search_similar_documents", <<q, k>>, e, 1)
               ELSE Returned("search_similar_documents", <<q, k>>,
                        [i \in 1..Len(found) |->
                            [content |-> Doc(found[i]).page_content,
                             similarity_score |-> i,
                             metadata |-> Doc(found[i]).metadata]],
                        1)
         /\ UNCHANGED <<vectorstore, retriever, qa_chain, collection,
                        documents, calls, raised, sleeps, splitter, chunks>>

SearchSimilarDocuments ==
    \E q \in Questions, k \in {1, 3}, fails \in BOOLEAN,
       e \in ProviderErrors :
        \E found \in Retrievals(k) :
            search_similar_documents(q, k, fails, e, found)

(***************************************************************************)
(* TextChunker.__init__(chunk_size, chunk_overlap).  The method validates  *)
(* nothing itself: it hands both values to RecursiveCharacterTextSplitter, *)
(* whose constructor (langchain TextSplitter) raises ValueError only when  *)
(* chunk_overlap > chunk_size.  A construction that raises yields no       *)
(* chunker, so the one in use stays.                                       *)
(***************************************************************************)
RecursiveCharacterTextSplitter(chunk_size, chunk_overlap) ==
    [raises |-> chunk_overlap > chunk_size,
     splitter |-> [chunk_size |-> chunk_size, chunk_overlap |-> chunk_overlap]]

TextChunkerInit(chunk_size, chunk_overlap) ==
    LET made == RecursiveCharacterTextSplitter(chunk_size, chunk_overlap)
    IN  /\ IF made.raises
           THEN /\ last' = Raised("TextChunker.__init__",
                                  <<chunk_size, chunk_overlap>>,
                                  "Got a larger chunk overlap than chunk size",
                                  0)
                /\ UNCHANGED splitter
           ELSE /\ splitter' = made.splitter
                /\ last' = Returned("TextChunker.__init__",
                                    <<chunk_size, chunk_overlap>>, None, 0)
        /\ UNCHANGED <<vectorstore, retriever, qa_chain, collection,
                       documents, calls, raised, sleeps, chunks>>

NewTextChunker ==
    \E chunk_size \in 1..MaxChunkSize, chunk_overlap \in 0..MaxChunkSize :
        TextChunkerInit(chunk_size, chunk_overlap)

(***************************************************************************)
(* splitter.split_documents for texts without separator characters: the    *)
(* splitter falls through to the "" separator and cuts windows of          *)
(* chunk_size characters, each starting max(chunk_size - chunk_overlap, 1) *)
(* characters after the previous one; every piece of a document carries a  *)
(* copy of that document's metadata.                                       *)
(***************************************************************************)
RECURSIVE Windows(_, _, _, _)
Windows(text, start, size, step) ==
    IF Len(text) = 0
    THEN <<>>
    ELSE IF start + size - 1 >= Len(text)
         THEN <<SubSeq(text, start, Len(text))>>
         ELSE <<SubSeq(text, start, start + size - 1)>>
              \o Windows(text, start + step, size, step)

SplitText(text, sp) ==
    Windows(text, 1, sp.chunk_size,
            IF sp.chunk_size - sp.chunk_overlap >= 1
            THEN sp.chunk_size - sp.chunk_overlap ELSE 1)

RECURSIVE SplitterSplitDocuments(_, _)
SplitterSplitDocuments(docs, sp) ==
    IF docs = <<>>
    THEN <<>>
    ELSE LET doc == Head(docs)
             texts == SplitText(doc.page_content, sp)
         IN  [j \in 1..Len(texts) |->
                 [page_content |-> texts[j], metadata |-> doc.metadata]]
             \o SplitterSplitDocuments(Tail(docs), sp)

\* Faulty variant: a chunk_id already in the metadata is kept (setdefault).
TagChunkKeep(i, chunk) ==
    [page_content |-> chunk.page_content,
     metadata |-> chunk.metadata
                  @@ [chunk_id |-> i, chunk_size |-> Len(chunk.page_content)]]

\* for i, chunk in enumerate(chunks): the metadata written to chunk i (0-based)
TagChunk(i, chunk) ==
    [page_content |-> chunk.page_content,
     metadata |-> [chunk_id |-> i, chunk_size |-> Len(chunk.page_content)]
                  @@ chunk.metadata]

(***************************************************************************)
(* TextChunker.split_documents(documents)                                  *)
(***************************************************************************)
split_documents(docs) ==
    LET pieces == SplitterSplitDocuments(docs, splitter)
    IN  /\ chunks' = [j \in 1..Len(pieces) |-> TagChunk(j - 1, pieces[j])]
        /\ last' = Returned("split_documents", <<docs>>, None, 0)
        /\ UNCHANGED <<vectorstore, retriever, qa_chain, collection,
                       documents, calls, raised, sleeps, splitter>>

\* Loaded documents: letters only, with the loader's metadata; those of odd
\* length carry a chunk_id left by an earlier chunking pass.
InputDocs ==
    {[page_content |-> [j \in 1..n |-> Alphabet[(j % 3) + 1]],
      metadata |-> IF n % 2 = 0
                   THEN [source_file |-> "manual_politicas.txt",
                         file_type |-> "txt"]
                   ELSE [source_file |-> "guia_desarrollo.txt",
                         file_type |-> "txt", chunk_id |-> 9]] :
        n \in 0..MaxDocLen}

InputLists ==
    UNION {[1..n -> InputDocs] : n \in 0..MaxInputDocs}

SplitDocuments == \E docs \in InputLists : split_documents(docs)

(***************************************************************************)
(* DocumentProcessor.load_documents_from_directory(directory_path).        *)
(* A file is its stem and extension; its path is directory/stem.ext.       *)
(***************************************************************************)
Directory == "sample_docs"

\* Files that may lie in the directory.
FileUniverse ==
    <<[stem |-> "manual_politicas", ext |-> "txt", pages |-> 1],
      [stem |-> "NOTAS", ext |-> "TXT", pages |-> 1],
      [stem |-> "informe.2025", ext |-> "pdf", pages |-> MaxPages],
      [stem |-> "README", ext |-> "md", pages |-> 1]>>

\* The files of FileUniverse with index in S, in directory order.
Listing(S) ==
    LET idx == SelectSeq([i \in 1..Len(FileUniverse) |-> i],
                         LAMBDA i : i \in S)
    IN  [n \in 1..Len(idx) |-> FileUniverse[idx[n]]]

Lower(ext) == IF ext = "TXT" THEN "txt" ELSE ext

\* dir_path.glob("*.ext"); matching ignores case on case-insensitive
\* file systems.
Glob(files, ext, ignore_case) ==
    SelectSeq(files,
              LAMBDA f : f.ext = ext \/ (ignore_case /\ Lower(f.ext) = ext))

\* str(file_path)
PathStr(f) == Directory \o "/" \o f.stem \o "." \o f.ext

\* file_path_str.endswith("." + ext)
EndsWith(f, ext) == f.ext = ext

\* os.path.basename(file_path_str)
Basename(f) == f.stem \o "." \o f.ext

\* file_path_str.split('.')[-1]
FileType(f) == f.ext

\* loader.load() when it returns: one document per PDF page, one per text
\* file, each with the loader's own metadata.
PyPDFLoaderLoad(f) ==
    [j \in 1..f.pages |->
        [page_content |-> [n \in 1..j |-> Alphabet[(n % 3) + 1]],
         metadata |-> [source |-> PathStr(f), page |-> j - 1]]]

TextLoaderLoad(f) ==
    <<[page_content |-> <<"a", "b", "c">>,
       metadata |-> [source |-> PathStr(f)]]>>

\* for doc in docs: the two metadata entries added to each document.
Annotate(docs, f) ==
    [j \in 1..Len(docs) |->
        [page_content |-> docs[j].page_content,
         metadata |-> [source_file |-> Basename(f), file_type |-> FileType(f)]
                      @@ docs[j].metadata]]

\* Faulty variant: a loader exception ends the loop (break in the handler).
RECURSIVE LoadFilesBreak(_, _, _)
LoadFilesBreak(file_paths, failing, docs) ==
    IF file_paths = <<>>
    THEN docs
    ELSE LET f == Head(file_paths)
             rest == Tail(file_paths)
         IN  IF EndsWith(f, "pdf")
             THEN IF f.stem \in failing
                  THEN docs
                  ELSE LoadFilesBreak(rest, failing,
                           docs \o Annotate(PyPDFLoaderLoad(f), f))
             ELSE IF EndsWith(f, "txt")
                  THEN IF f.stem \in failing
                       THEN docs
                       ELSE LoadFilesBreak(rest, failing,
                                docs \o Annotate(TextLoaderLoad(f), f))
                  ELSE LoadFilesBreak(rest, failing, docs)

\* The loop over file_paths; failing holds the stems of the files whose
\* loader raises.  An exception is caught and the loop goes on.
RECURSIVE LoadFiles(_, _, _)
LoadFiles(file_paths, failing, docs) ==
    IF file_paths = <<>>
    THEN docs
    ELSE LET f == Head(file_paths)
             rest == Tail(file_paths)
         IN  IF EndsWith(f, "pdf")
             THEN IF f.stem \in failing
                  THEN LoadFiles(rest, failing, docs)
                  ELSE LoadFiles(rest, failing,
                           docs \o Annotate(PyPDFLoaderLoad(f), f))
             ELSE IF EndsWith(f, "txt")
                  THEN IF f.stem \in failing
                       THEN LoadFiles(rest, failing, docs)
                       ELSE LoadFiles(rest, failing,
                                docs \o Annotate(TextLoaderLoad(f), f))
                  ELSE LoadFiles(rest, failing, docs)

load_documents_from_directory(files, failing, ignore_case) ==
    LET file_paths == Glob(files, "txt", ignore_case)
                      \o Glob(files, "pdf", ignore_case)
    IN  /\ last' = Returned("load_documents_from_directory",
                            <<files, failing, ignore_case>>,
                            LoadFiles(file_paths, failing, <<>>), 0)
        /\ UNCHANGED <<vectorstore, retriever, qa_chain, collection,
                       documents, calls, raised, sleeps, splitter, chunks>>

LoadDocumentsFromDirectory ==
    \E S \in SUBSET (1..Len(FileUniverse)), ignore_case \in BOOLEAN :
        \E failing \in SUBSET {FileUniverse[i].stem : i \in S} :
            load_documents_from_directory(Listing(S), failing, ignore_case)

Next ==
    \/ BuildVectorstore(FewChunks)
    \/ SetupRetriever
    \/ SetupQaChain
    \/ Query
    \/ SearchSimilarDocuments

Spec == Init /\ [][Next]_vars

\* Indexing alone, over document lists that span several batches.
NextIndex == BuildVectorstore(ChunkCounts)

SpecIndex == Init /\ [][NextIndex]_vars

\* The chunker alone.
NextChunk ==
    \/ NewTextChunker
    \/ SplitDocuments

SpecChunk == Init /\ [][NextChunk]_vars

\* The document loader alone.
NextLoad == LoadDocumentsFromDirectory

SpecLoad == Init /\ [][NextLoad]_vars

(***************************************************************************)
(* Properties of batched indexing (checked under SpecIndex).               *)
(***************************************************************************)
CeilDiv(n, b) == (n + b - 1) \div b

RECURSIVE Flatten(_)
Flatten(batches) ==
    IF batches = <<>> THEN <<>> ELSE Head(batches) \o Flatten(Tail(batches))

\* The batches of cs whose add_documents call did not raise, in call order.
RECURSIVE Stored(_, _)
Stored(cs, rs) ==
    IF cs = <<>>
    THEN <<>>
    ELSE (IF Head(rs) THEN <<>> ELSE Head(cs)) \o Stored(Tail(cs), Tail(rs))

\* C1: whatever calls fail, build_vectorstore issues exactly
\* ceil(N / batch_size) add_documents calls for N submitted chunks: every
\* call has an outcome and a failed call is followed by the remaining ones.
C1_CallCount ==
    /\ Len(calls) = CeilDiv(Len(documents), batch_size)
    /\ Len(raised) = Len(calls)

\* C1 witness: the first of several batches failed and the later batches
\* were still attempted.
C1_Witness ==
    /\ Len(documents) = MaxChunks
    /\ Len(calls) >= 3
    /\ raised[1]
    /\ ~raised[Len(calls)]

\* C2: the batches are contiguous slices of the submitted list in
\* submission order: together they are the list itself, all but the last
\* hold batch_size chunks, the last holds N - batch_size * (ceil(N/B) - 1),
\* and 250 chunks are sent as 100, 100, 50.
C2_BatchesAreSlices ==
    /\ Flatten(calls) = documents
    /\ \A n \in 1..Len(calls) :
          /\ calls[n] = SubSeq(documents, (n - 1) * batch_size + 1,
                               Min(n * batch_size, Len(documents)))
          /\ n < Len(calls) => Len(calls[n]) = batch_size
          /\ n = Len(calls) =>
                Len(calls[n]) = Len(documents) - batch_size * (Len(calls) - 1)
          /\ Len(calls[n]) >= 1
    /\ Len(documents) = 250 =>
          [n \in 1..Len(calls) |-> Len(calls[n])] = <<100, 100, 50>>

\* C2 witness: a build whose last batch is a partial one after two full ones.
C2_Witness ==
    /\ Len(calls) >= 3
    /\ Len(calls[1]) = batch_size
    /\ Len(calls[Len(calls)]) < batch_size
    /\ calls[2][1] = documents[batch_size + 1]

\* C8 as claimed: a batch whose upsert failed is passed to add_documents a
\* second time (one delayed retry) before it is given up.
C8_RetriedOnce ==
    \A n \in 1..Len(calls) :
        (raised[n] /\ (n = 1 \/ calls[n - 1] # calls[n]))
            => (n < Len(calls) /\ calls[n + 1] = calls[n])

\* C8 amended: a batch whose upsert fails is skipped without a retry: the
\* long pause follows the failure, the next call (if any) is for the next
\* batch, and no batch is passed to add_documents more than once.
C8_SkippedWithoutRetry ==
    /\ \A m, n \in 1..Len(calls) : m # n => calls[m] # calls[n]
    /\ Len(sleeps) = Len(calls)
    /\ \A n \in 1..Len(calls) :
          /\ sleeps[n] = IF raised[n] THEN SleepError ELSE SleepOk
          /\ (n - 1) * batch_size + 1 <= Len(documents)
          /\ calls[n][1] = documents[(n - 1) * batch_size + 1]

\* C8 witness: a failed batch followed by the call for the next batch.
C8_Witness ==
    /\ Len(calls) >= 2
    /\ raised[1]
    /\ sleeps[1] = SleepError
    /\ calls[2] # calls[1]

C3_ProviderFailureIsFlagged ==
    (last.op = "query" /\ last.invoke.outcome = "raised") =>
        /\ ~last.raised
        /\ "error" \in DOMAIN last.returned
        /\ last.returned.error = TRUE
        /\ \E e \in ProviderErrors :
              last.returned.answer = "Error procesando consulta: " \o e
        /\ last.returned.question = last.args[1]

\* C3 witness: a query on a configured chain whose invocation raised and
\* which returned the error-flagged dictionary.
C3_Witness ==
    /\ qa_chain # NoChain
    /\ last.op = "query"
    /\ last.invoke.outcome = "raised"
    /\ ~last.raised
    /\ last.returned.error

\* C4 as claimed: once setup_retriever has succeeded, query returns a
\* result instead of raising.
C4_RaisesOnlyWithoutRetriever ==
    (last.op = "query" /\ retriever # NoRetriever) => ~last.raised

\* C4 amended: query raises exactly when it is invoked before the QA chain
\* has been configured; once setup_qa_chain has succeeded it returns a
\* result (normal or error-flagged) instead of raising.
C4_RaisesOnlyWithoutQaChain ==
    last.op = "query" => (last.raised <=> qa_chain = NoChain)

\* C4 witness: after setup_retriever and setup_qa_chain succeeded, a query
\* ran the chain and returned its result.
C4_Witness ==
    /\ qa_chain # NoChain
    /\ retriever # NoRetriever
    /\ last.op = "query"
    /\ last.invoke.outcome = "returned"
    /\ ~last.raised
    /\ last.returned.question = last.args[1]

\* C5: setup_retriever and search_similar_documents invoked before
\* build_vectorstore has set the store raise the not-ready error without
\* calling the store, and the retriever stays unset.
C5_NotReadyBeforeBuild ==
    /\ (vectorstore = 0 /\ last.op = "setup_retriever") =>
          /\ last.raised
          /\ last.error = "Primero debe construir la base de datos vectorial"
          /\ last.store_calls = 0
    /\ (vectorstore = 0 /\ last.op = "search_similar_documents") =>
          /\ last.raised
          /\ last.error = "Base de datos vectorial no inicializada"
          /\ last.store_calls = 0
    /\ vectorstore = 0 => retriever = NoRetriever

\* C5 witness: setup_retriever was called before any build and raised.
C5_Witness ==
    /\ vectorstore = 0
    /\ last.op = "setup_retriever"
    /\ last.raised
    /\ retriever = NoRetriever

\* The sources of the last query's result describe the retrieved fragments:
\* one entry per fragment in retrieval order, document_id counting from 1,
\* num_sources the number of entries, and each preview the first 200
\* characters of the fragment followed by "...".
SourcesMatchRetrieved ==
    LET r == last.returned
        docs == last.invoke.docs
    IN  /\ "sources" \in DOMAIN r
        /\ "num_sources" \in DOMAIN r
        /\ Len(r.sources) = Len(docs)
        /\ r.num_sources = Len(docs)
        /\ \A i \in 1..Len(docs) :
              LET text == PageContent(docs[i])
                  shown == Min(PreviewLen, Len(text))
                  preview == r.sources[i].content_preview
              IN  /\ r.sources[i].document_id = i
                  /\ Len(preview) = shown + 3
                  /\ \A j \in 1..shown : preview[j] = text[j]
                  /\ \A j \in (shown + 1)..(shown + 3) : preview[j] = "."

\* C9 as claimed: every successful query returns the sources.
C9_SourcesOnSuccess ==
    (last.op = "query" /\ last.invoke.outcome = "returned")
        => SourcesMatchRetrieved

\* C9 amended: a successful query called with return_sources true (the
\* default) returns the sources of the retrieved fragments.
C9_SourcesWhenRequested ==
    (last.op = "query" /\ last.invoke.outcome = "returned" /\ last.args[2])
        => SourcesMatchRetrieved

\* C9 witness: a successful query returned two sources, one of them a
\* fragment longer than the preview.
C9_Witness ==
    /\ last.op = "query"
    /\ last.invoke.outcome = "returned"
    /\ last.args[2]
    /\ last.returned.num_sources = 2
    /\ \E i \in 1..2 :
          /\ ContentLen(last.invoke.docs[i]) > PreviewLen
          /\ Len(last.returned.sources[i].content_preview) = PreviewLen + 3

(***************************************************************************)
(* Properties of the chunker (checked under SpecChunk).                    *)
(***************************************************************************)
\* C6: the chunks returned by one split_documents call carry chunk_id
\* 0, 1, ..., N-1 in output order, numbered across all input documents.
C6_ChunkIdsSequential ==
    \A j \in 1..Len(chunks) : chunks[j].metadata.chunk_id = j - 1

\* C6 witness: the first document gave at least two chunks and the
\* numbering continued into the chunks of the second document.
C6_Witness ==
    /\ Len(chunks) >= 3
    /\ chunks[1].metadata.source_file = chunks[2].metadata.source_file
    /\ chunks[Len(chunks)].metadata.source_file
          # chunks[1].metadata.source_file
    /\ chunks[Len(chunks)].metadata.chunk_id = Len(chunks) - 1

\* C7: no chunker exists whose chunk_overlap is not below its chunk_size,
\* because constructing one with chunk_overlap >= chunk_size fails.
C7_OverlapBelowSize ==
    splitter.chunk_overlap < splitter.chunk_size

(***************************************************************************)
(* Properties of the retriever configuration (checked under Spec).         *)
(***************************************************************************)
\* C11: a retriever configured in mmr mode has a candidate pool at least as
\* large as the number of fragments to select: fetch_k >= k.
C11_FetchCoversK ==
    retriever.search_type = "mmr" => retriever.fetch_k >= retriever.k

(***************************************************************************)
(* Properties of the document loader (checked under SpecLoad).             *)
(***************************************************************************)
\* C12: load_documents_from_directory never raises; a file that is
\* unsupported or whose loader raises contributes no document, every other
\* .txt / .pdf file contributes all of its documents, and every returned
\* document carries source_file (base name) and file_type (extension).
C12_FailedFilesSkipped ==
    last.op = "load_documents_from_directory" =>
        LET files == last.args[1]
            failing == last.args[2]
            docs == last.returned
        IN  /\ ~last.raised
            /\ \A i \in 1..Len(files) :
                  LET f == files[i]
                      mine == {j \in 1..Len(docs) :
                                  docs[j].metadata.source_file
                                      = f.stem \o "." \o f.ext}
                  IN  Cardinality(mine) =
                          IF f.stem \in failing THEN 0
                          ELSE IF f.ext = "pdf" THEN f.pages
                          ELSE IF f.ext = "txt" THEN 1
                          ELSE 0
            /\ \A j \in 1..Len(docs) :
                  /\ {"source_file", "file_type"}
                        \subseteq DOMAIN docs[j].metadata
                  /\ \E i \in 1..Len(files) :
                        /\ docs[j].metadata.source_file
                              = files[i].stem \o "." \o files[i].ext
                        /\ docs[j].metadata.file_type = files[i].ext

\* C12 witness: the text file's loader raised, an upper-case .TXT file was
\* listed and found unsupported, and the PDF pages were still returned.
C12_Witness ==
    /\ last.op = "load_documents_from_directory"
    /\ Len(last.args[1]) = Len(FileUniverse)
    /\ last.args[2] = {"manual_politicas"}
    /\ last.args[3]
    /\ Len(last.returned) = MaxPages
    /\ \A j \in 1..Len(last.returned) :
          last.returned[j].metadata.file_type = "pdf"

(***************************************************************************)
(* Properties of the RAGSystem fields (checked under Spec).                *)
(***************************************************************************)
\* C13: the dictionary returned by query has the key error exactly when the
\* chain invocation raised: a successful result has question and answer and
\* no error, an error result has neither sources nor num_sources.
C13_ErrorKeyIffRaised ==
    (last.op = "query" /\ ~last.raised) =>
        LET keys == DOMAIN last.returned
        IN  /\ "error" \in keys <=> last.invoke.outcome = "raised"
            /\ last.invoke.outcome = "returned" =>
                  /\ {"question", "answer"} \subseteq keys
                  /\ "error" \notin keys
            /\ "error" \in keys =>
                  /\ "sources" \notin keys
                  /\ "num_sources" \notin keys

\* C13 witness: a successful query returned question, answer and sources
\* and no error key.
C13_Witness ==
    /\ last.op = "query"
    /\ last.invoke.outcome = "returned"
    /\ DOMAIN last.returned
          = {"question", "answer", "timestamp", "sources", "num_sources"}

\* C14: qa_chain set implies retriever set implies vectorstore set; a setup
\* call that raises leaves the three fields as they were; and no call turns
\* a set field back to unset.
C14_SetupOrder ==
    /\ [](/\ qa_chain # NoChain => retriever # NoRetriever
          /\ retriever # NoRetriever => vectorstore # 0)
    /\ [][/\ (last'.raised /\ last'.op \in {"setup_retriever",
                                            "setup_qa_chain"})
                => UNCHANGED <<vectorstore, retriever, qa_chain>>
          /\ vectorstore # 0 => vectorstore' # 0
          /\ retriever # NoRetriever => retriever' # NoRetriever
          /\ qa_chain # NoChain => qa_chain' # NoChain]_vars

\* C14 witness: setup_qa_chain raised for want of a retriever although the
\* store was built, and left the chain unset.
C14_Witness ==
    /\ last.op = "setup_qa_chain"
    /\ last.raised
    /\ vectorstore # 0
    /\ retriever = NoRetriever
    /\ qa_chain = NoChain

\* C15: build_vectorstore replaces the vectorstore handle and leaves
\* retriever and qa_chain as they were, so both stay bound to the handle
\* that was current when setup_retriever ran.
C15_RebuildKeepsRetriever ==
    /\ [][vectorstore' # vectorstore =>
             /\ retriever' = retriever
             /\ qa_chain' = qa_chain]_vars
    /\ []((last.op = "build_vectorstore" /\ retriever # NoRetriever) =>
             /\ retriever.store \in 1..(vectorstore - 1)
             /\ qa_chain # NoChain =>
                   qa_chain.retriever.store \in 1..(vectorstore - 1))

\* C15 witness: after the second build the retriever and the chain are
\* still those configured on the first handle.
C15_Witness ==
    /\ last.op = "build_vectorstore"
    /\ vectorstore = 2
    /\ retriever.store = 1
    /\ qa_chain # NoChain
    /\ qa_chain.retriever = retriever
====
